---- MODULE Spec2Model ----
(***************************************************************************)
(* Model of the recording portal of recording_demo.py: the progress        *)
(* document progress.json (load_progress / save_progress), the submit      *)
(* callback record_and_save, the speaker-change callback                   *)
(* update_prompt_on_speaker_change and the per-tab UI state of build_ui;   *)
(* beside it the submit callback of recording_demo_aws.py, which keeps no  *)
(* progress and moves to the next prompt cyclically.                       *)
(*                                                                         *)
(* Python indices are 0-based; a Python list l is the TLA+ sequence whose  *)
(* element k+1 is l[k].  Durations are whole time units (a float of        *)
(* seconds in the code).  A speaker id is a sequence of characters, so     *)
(* that str.strip() can be computed.                                       *)
(***************************************************************************)
EXTENDS Integers, Sequences, FiniteSets, TLC

\* ------------------------------------------------------------------ bounds
\* longest prompts.txt, in prompts
MaxPrompts == 2
\* submissions that get as far as taking a timestamp
MaxSubmits == 3
\* longest recording, in time units
MaxDur == 1
\* sequencer check: longest prompt list and longest completed list
MaxN == 3
MaxListLen == 3

VARIABLES
    bucket,         \* --bucket given (TRUE) or local-only (FALSE)
    all_prompts,    \* the prompt list load_prompts returned at startup
    progress_file,  \* progress.json on disk
    meta,           \* meta.csv, the rows appended so far
    audio_store,    \* the WAV artifacts written (local files and S3 objects)
    clock,          \* timestamps handed out so far: submits are taken to be
                    \* a second or more apart, so no two share a file name
    speaker,        \* per tab: the Speaker-ID text box
    idx_state,      \* per tab: gr.State idx_state
    prompt_box,     \* per tab: the "Sentence to read" box
    h,              \* per tab: the record_and_save call in progress
    ret,            \* the callback that returned (or raised) last
    persisted,      \* history: the last mapping completely written
    calls,          \* history: the last two completed save_progress calls
    last_result,    \* history: per speaker what the last two successful submits returned
    sq,             \* the sequencer applied to a drawn input
    aws             \* the portal of recording_demo_aws.py run side by side:
                    \* its gr.State prompt_idx, its prompt box, what it stored
                    \* and the arguments and outcome of its last submit

vars == <<bucket, all_prompts, progress_file, meta, audio_store, clock, speaker, idx_state,
          prompt_box, h, ret, persisted, calls, last_result, sq, aws>>

\* browser tabs; one volunteer session uses the first
Tabs == {1, 2}
SessionTabs == {1}

\* ----------------------------------------------------------------- strings
Whitespace == {" ", "\t"}

SpeakerIds == {<<>>, <<" ">>, <<"\t">>, <<"a">>, <<"b">>}

RECURSIVE LStrip(_)
LStrip(s) ==
    IF s # <<>> /\ Head(s) \in Whitespace THEN LStrip(Tail(s)) ELSE s

RECURSIVE RStrip(_)
RStrip(s) ==
    IF s # <<>> /\ s[Len(s)] \in Whitespace THEN RStrip(SubSeq(s, 1, Len(s) - 1)) ELSE s

\* str.strip()
Strip(s) == RStrip(LStrip(s))

\* ----------------------------------------------------------------- prompts
PromptText(i) == <<"sentence", i>>

\* load_prompts: the list of N prompt texts
PromptList(n) == [k \in 1..n |-> PromptText(k - 1)]

\* prompts[i]
PromptAt(prompts, i) == prompts[i + 1]

\* ------------------------------------------------------------------ lists
ToSet(l) == {l[k] : k \in DOMAIN l}

InList(x, l) == \E k \in DOMAIN l : l[k] = x

SetMin(S) == CHOOSE x \in S : \A y \in S : x <= y

RECURSIVE SortedSeq(_)
SortedSeq(S) ==
    IF S = {} THEN <<>> ELSE <<SetMin(S)>> \o SortedSeq(S \ {SetMin(S)})

LastTwo(l) == IF Len(l) > 2 THEN SubSeq(l, Len(l) - 1, Len(l)) ELSE l

\* sorted(list(set(l)))
SortedUnique(l) == SortedSeq(ToSet(l))

\* --------------------------------------------------------- progress store
EmptyMap == <<>>

NewRecord == [completed_prompts |-> <<>>, total_duration_seconds |-> 0]

AbsentFile == [state |-> "absent", data |-> EmptyMap]
TruncatedFile == [state |-> "partial", data |-> EmptyMap]
JsonFile(m) == [state |-> "json", data |-> m]
\* bytes that are not text in the encoding open("r") reads with
UndecodableFile == [state |-> "bytes", data |-> EmptyMap]

\* load_progress returns: json.load raises UnicodeDecodeError on bytes that
\* do not decode, and line 81 catches json.JSONDecodeError only
Loads(f) == f.state # "bytes"

\* load_progress: the parsed mapping, {} when the file is missing or does
\* not parse (an emptied or half-written file raises JSONDecodeError)
load_progress(f) ==
    IF f.state = "json" THEN f.data ELSE EmptyMap

\* progress.get(speaker_id, {}) with the two .get defaults of the callers
GetRecord(m, s) ==
    IF s \in DOMAIN m THEN m[s] ELSE NewRecord

\* save_progress without the test of line 99: the index is appended and the
\* duration added on every call
MergeProgressNoCheck(progress, speaker_id, prompt_idx, audio_duration) ==
    LET p1 == IF speaker_id \in DOMAIN progress
              THEN progress
              ELSE progress @@ (speaker_id :> NewRecord)
        rec == p1[speaker_id]
    IN  [p1 EXCEPT ![speaker_id] =
            [completed_prompts |->
                SortedUnique(Append(rec.completed_prompts, prompt_idx)),
             total_duration_seconds |->
                rec.total_duration_seconds + audio_duration]]

\* save_progress without the test of line 92: the speaker's record is
\* created anew on every call
MergeProgressResets(progress, speaker_id, prompt_idx, audio_duration) ==
    LET p1 == [k \in DOMAIN progress \cup {speaker_id} |->
                 IF k = speaker_id THEN NewRecord ELSE progress[k]]
    IN  [p1 EXCEPT ![speaker_id] =
            [completed_prompts |-> <<prompt_idx>>,
             total_duration_seconds |-> audio_duration]]

\* save_progress lines 92-102, on the mapping just loaded
MergeProgress(progress, speaker_id, prompt_idx, audio_duration) ==
    LET p1 == IF speaker_id \in DOMAIN progress
              THEN progress
              ELSE progress @@ (speaker_id :> NewRecord)
        rec == p1[speaker_id]
        upd == IF ~InList(prompt_idx, rec.completed_prompts)
               THEN [completed_prompts |->
                        SortedUnique(Append(rec.completed_prompts, prompt_idx)),
                     total_duration_seconds |->
                        rec.total_duration_seconds + audio_duration]
               ELSE rec
    IN  [p1 EXCEPT ![speaker_id] = upd]

\* --------------------------------------------------------------- sequencer
RECURSIVE FirstIncomplete(_, _, _)
FirstIncomplete(i, n, completed) ==
    IF i >= n THEN -1
    ELSE IF i \notin completed THEN i
    ELSE FirstIncomplete(i + 1, n, completed)

\* the sequencer going to the last prompt, not the first, when all are done
NextPromptWrapsToLast(prompts, completed_list) ==
    LET next_prompt_idx == FirstIncomplete(0, Len(prompts), ToSet(completed_list))
    IN  IF next_prompt_idx = -1 THEN Len(prompts) - 1 ELSE next_prompt_idx

\* record_and_save lines 169-177
NextPromptOnSubmit(prompts, completed_list) ==
    LET next_prompt_idx == FirstIncomplete(0, Len(prompts), ToSet(completed_list))
    IN  IF next_prompt_idx = -1 THEN 0 ELSE next_prompt_idx

\* update_prompt_on_speaker_change lines 186-193
NextPromptOnChange(prompts, completed_list) ==
    LET next_prompt_idx == FirstIncomplete(0, Len(prompts), ToSet(completed_list))
    IN  IF next_prompt_idx = -1 THEN 0 ELSE next_prompt_idx

\* ------------------------------------------------------------------- audio
NoAudio == [kind |-> "none", dur |-> 0]
BadAudio == [kind |-> "bad", dur |-> 0]
Wav(d) == [kind |-> "wav", dur |-> d]

Audios == {NoAudio, BadAudio} \cup {Wav(d) : d \in 0..MaxDur}

\* audio_to_wav_bytes: the WAV bytes (kept as their length) or ValueError
AudioDecodes(audio) == audio.kind = "wav"

\* the file name (speaker, idx, timestamp) and where it is stored
Artifact(place, speaker_id, prompt_idx, timestamp, dur) ==
    [place |-> place, speaker_id |-> speaker_id, prompt_idx |-> prompt_idx,
     timestamp |-> timestamp, dur |-> dur]

Place == IF bucket THEN "s3" ELSE "local"

\* sf.info(local_file_path).duration, 0.0 when the local file cannot be read
AudioInfoDuration(store, speaker_id, prompt_idx, timestamp) ==
    LET files == {a \in store : /\ a.place = "local"
                                /\ a.speaker_id = speaker_id
                                /\ a.prompt_idx = prompt_idx
                                /\ a.timestamp = timestamp}
    IN  IF files = {} THEN 0 ELSE (CHOOSE a \in files : TRUE).dur

\* ---------------------------------------------------------------- handlers
NoResult ==
    [status |-> "none", prompt_text |-> <<>>, prompt_idx |-> -1,
     completed_count |-> -1, n |-> -1, total_duration |-> -1]

\* the three early returns of record_and_save: a warning and the same prompt
WarningResult(prompts, prompt_idx, warning) ==
    [status |-> warning, prompt_text |-> PromptAt(prompts, prompt_idx),
     prompt_idx |-> prompt_idx, completed_count |-> -1, n |-> -1,
     total_duration |-> -1]

\* record_and_save lines 165-179, on the mapping read back
SavedResult(prompts, progress_data, speaker_id) ==
    LET rec == GetRecord(progress_data, speaker_id)
        next_prompt_idx == NextPromptOnSubmit(prompts, rec.completed_prompts)
    IN  [status |-> "saved",
         prompt_text |-> PromptAt(prompts, next_prompt_idx),
         prompt_idx |-> next_prompt_idx,
         completed_count |-> Len(rec.completed_prompts),
         n |-> Len(prompts),
         total_duration |-> rec.total_duration_seconds]

\* update_prompt_on_speaker_change lines 181-194: the index it returns
ResumeIdx(prompts, f, speaker_id) ==
    IF Strip(speaker_id) = <<>>
    THEN 0
    ELSE NextPromptOnChange(prompts,
             GetRecord(load_progress(f), speaker_id).completed_prompts)

Warnings == {"warn_speaker", "warn_record", "warn_audio"}

\* the validation with speaker_id compared to "" without strip()
ValidateNoStrip(speaker_id, audio) ==
    IF speaker_id = <<>> THEN "warn_speaker"
    ELSE IF audio.kind = "none" THEN "warn_record"
    ELSE IF ~AudioDecodes(audio) THEN "warn_audio"
    ELSE "ok"

\* record_and_save lines 129-137: the warning the submit is turned away
\* with, "ok" when it goes on
Validate(speaker_id, audio) ==
    IF Strip(speaker_id) = <<>> THEN "warn_speaker"
    ELSE IF audio.kind = "none" THEN "warn_record"
    ELSE IF ~AudioDecodes(audio) THEN "warn_audio"
    ELSE "ok"

\* a tab with no record_and_save call in progress
IdleHandler ==
    [pc |-> "idle", speaker_id |-> <<>>, prompt_idx |-> 0, audio |-> NoAudio,
     timestamp |-> 0, audio_duration |-> 0, file0 |-> AbsentFile,
     loaded |-> EmptyMap, progress |-> EmptyMap]

NoReturn == [tab |-> 0, value |-> NoResult]

\* what the callback of tab t handed back to Gradio
Return(t, value) == [tab |-> t, value |-> value]

\* update_prompt_on_speaker_change returns (text, index) only
ChangedResult(prompts, idx) ==
    [status |-> "changed", prompt_text |-> PromptAt(prompts, idx),
     prompt_idx |-> idx, completed_count |-> -1, n |-> -1, total_duration |-> -1]

\* an exception left record_and_save: nothing is handed back
RaisedResult == [NoResult EXCEPT !.status = "raised"]

\* the callbacks wired without idx_state among their outputs: the text
\* changes, the index submitted next does not
ShowTextOnly(t, text, idx) ==
    /\ prompt_box' = [prompt_box EXCEPT ![t] = text]
    /\ UNCHANGED idx_state

\* the outputs of a callback shown in the tab (build_ui lines 217-223)
ShowIn(t, text, idx) ==
    /\ prompt_box' = [prompt_box EXCEPT ![t] = text]
    /\ idx_state' = [idx_state EXCEPT ![t] = idx]

\* ------------------------------------------- recording_demo_aws.py
\* speaker_id.replace(" ", ""): the spaces removed, nothing else
RemoveSpaces(s) == SelectSeq(s, LAMBDA c : c # " ")

\* record_and_save of the AWS variant, lines 69-73
AwsValidate(speaker_id, audio) ==
    IF RemoveSpaces(speaker_id) = <<>> THEN "warn_speaker"
    ELSE IF audio.kind = "none" THEN "warn_record"
    ELSE "ok"

\* the next prompt of the AWS variant, line 96
AwsNextIdx(prompt_idx, prompts) == (prompt_idx + 1) % Len(prompts)

\* build_ui of the AWS variant: the first prompt shown, gr.State(0)
AwsStarted ==
    [prompt_idx |-> 0, prompt_txt |-> PromptAt(all_prompts, 0),
     status |-> "none", speaker_id |-> <<>>, audio |-> NoAudio,
     meta |-> <<>>, store |-> {}]

\* submit.click of the AWS variant with the text box holding speaker_id:
\* record_and_save lines 68-97 on its own gr.State prompt_idx; a warning
\* returns None for the prompt box and the index it was given,
\* save_wav_to_buffer raises on a payload that is not (sr, samples)
AwsRecordAndSave(speaker_id, audio) ==
    LET called == [aws EXCEPT !.speaker_id = speaker_id, !.audio = audio]
        v == AwsValidate(speaker_id, audio)
        next_idx == AwsNextIdx(aws.prompt_idx, all_prompts)
        timestamp == Len(aws.meta) + 1
    IN  IF v # "ok"
        THEN aws' = [called EXCEPT !.status = v, !.prompt_txt = <<>>]
        ELSE IF ~AudioDecodes(audio)
        THEN aws' = [called EXCEPT !.status = "raised"]
        ELSE /\ Len(aws.meta) < MaxSubmits
             /\ aws' = [called EXCEPT
                          !.status = "saved",
                          !.store = @ \cup {Artifact(Place, speaker_id, aws.prompt_idx,
                                                     timestamp, audio.dur)},
                          !.meta = Append(@, [speaker_id |-> speaker_id,
                                              prompt_idx |-> aws.prompt_idx,
                                              prompt_text |->
                                                  PromptAt(all_prompts, aws.prompt_idx),
                                              place |-> Place,
                                              timestamp |-> timestamp]),
                          !.prompt_idx = next_idx,
                          !.prompt_txt = PromptAt(all_prompts, next_idx)]

\* ------------------------------------------------------------------- steps
\* btn.click: record_and_save lines 122-140 with the tab's speaker and index
Click(t, audio) ==
    /\ h[t].pc = "idle"
    /\ IF Validate(speaker[t], audio) # "ok"
       THEN /\ ret' = Return(t, WarningResult(all_prompts, idx_state[t],
                                              Validate(speaker[t], audio)))
            /\ ShowIn(t, PromptAt(all_prompts, idx_state[t]), idx_state[t])
            /\ UNCHANGED <<clock, h>>
       ELSE /\ clock < MaxSubmits
            /\ clock' = clock + 1
            /\ h' = [h EXCEPT ![t] =
                       [IdleHandler EXCEPT !.pc = "audio",
                                           !.speaker_id = speaker[t],
                                           !.prompt_idx = idx_state[t],
                                           !.audio = audio,
                                           !.timestamp = clock + 1,
                                           !.file0 = progress_file]]
            /\ UNCHANGED <<prompt_box, idx_state, ret>>
    /\ UNCHANGED <<bucket, all_prompts, progress_file, meta, audio_store, speaker, persisted,
                   calls, last_result, sq>>

\* the click in this portal alone
Submit(t, audio) == Click(t, audio) /\ UNCHANGED aws

\* record_and_save lines 142-149: upload_to_s3 or save_local
SaveAudio(t) ==
    /\ h[t].pc = "audio"
    /\ audio_store' = audio_store \cup
          {Artifact(Place, h[t].speaker_id, h[t].prompt_idx, h[t].timestamp,
                    h[t].audio.dur)}
    /\ h' = [h EXCEPT ![t].pc = "meta"]
    /\ UNCHANGED <<bucket, all_prompts, progress_file, meta, clock, speaker, idx_state,
                   prompt_box, ret, persisted, calls, last_result, sq, aws>>

\* record_and_save going on to save_progress without the row of lines
\* 151-154
AppendMetaSkipped(t) ==
    /\ h[t].pc = "meta"
    /\ h' = [h EXCEPT ![t].pc = "sp_load"]
    /\ UNCHANGED <<bucket, all_prompts, progress_file, meta, audio_store, clock, speaker,
                   idx_state, prompt_box, ret, persisted, calls, last_result, sq, aws>>

\* record_and_save lines 151-154: one row appended to meta.csv
AppendMeta(t) ==
    /\ h[t].pc = "meta"
    /\ meta' = Append(meta, [speaker_id |-> h[t].speaker_id,
                             prompt_idx |-> h[t].prompt_idx,
                             prompt_text |-> PromptAt(all_prompts, h[t].prompt_idx),
                             place |-> Place,
                             timestamp |-> h[t].timestamp])
    /\ h' = [h EXCEPT ![t].pc = "sp_load"]
    /\ UNCHANGED <<bucket, all_prompts, progress_file, audio_store, clock, speaker, idx_state,
                   prompt_box, ret, persisted, calls, last_result, sq, aws>>

\* record_and_save lines 156-164 and save_progress lines 90-102: the
\* duration from sf.info, the load and the merge in memory
LoadAndMerge(t) ==
    /\ h[t].pc = "sp_load"
    /\ LET d == AudioInfoDuration(audio_store, h[t].speaker_id, h[t].prompt_idx,
                                  h[t].timestamp)
           m == load_progress(progress_file)
       IN  IF Loads(progress_file)
           THEN /\ h' = [h EXCEPT ![t].pc = "sp_open",
                                   ![t].audio_duration = d,
                                   ![t].loaded = m,
                                   ![t].progress =
                                       MergeProgress(m, h[t].speaker_id,
                                                     h[t].prompt_idx, d)]
                /\ UNCHANGED ret
           ELSE /\ h' = [h EXCEPT ![t] = IdleHandler]
                /\ ret' = Return(t, RaisedResult)
    /\ UNCHANGED <<bucket, all_prompts, progress_file, meta, audio_store, clock, speaker,
                   idx_state, prompt_box, persisted, calls, last_result, sq, aws>>

\* save_progress line 104: open("w") empties the file
OpenForWrite(t) ==
    /\ h[t].pc = "sp_open"
    /\ progress_file' = TruncatedFile
    /\ h' = [h EXCEPT ![t].pc = "sp_dump"]
    /\ UNCHANGED <<bucket, all_prompts, meta, audio_store, clock, speaker, idx_state,
                   prompt_box, ret, persisted, calls, last_result, sq, aws>>

\* one completed save_progress call: its arguments, and the speaker's record
\* in the mapping it loaded and in the mapping it wrote
Call(c) ==
    [speaker_id |-> c.speaker_id, prompt_idx |-> c.prompt_idx,
     audio_duration |-> c.audio_duration,
     before |-> GetRecord(c.loaded, c.speaker_id),
     after |-> GetRecord(c.progress, c.speaker_id)]

\* save_progress line 105: json.dump and the close that ends the with block
Dump(t) ==
    /\ h[t].pc = "sp_dump"
    /\ progress_file' = JsonFile(h[t].progress)
    /\ h' = [h EXCEPT ![t].pc = "rs_load"]
    /\ persisted' = h[t].progress
    /\ calls' = LastTwo(Append(calls, Call(h[t])))
    /\ UNCHANGED <<bucket, all_prompts, meta, audio_store, clock, speaker, idx_state,
                   prompt_box, ret, last_result, sq, aws>>

\* the result computed from the mapping loaded before the merge, without
\* the load_progress of line 165
ReadBackStale(t) ==
    /\ h[t].pc = "rs_load"
    /\ LET r == SavedResult(all_prompts, h[t].loaded, h[t].speaker_id)
       IN  /\ ret' = Return(t, r)
           /\ ShowIn(t, r.prompt_text, r.prompt_idx)
           /\ last_result' = [last_result EXCEPT ![h[t].speaker_id] =
                                  LastTwo(Append(@, r))]
    /\ h' = [h EXCEPT ![t] = IdleHandler]
    /\ UNCHANGED <<bucket, all_prompts, progress_file, meta, audio_store, clock,
                   speaker, persisted, calls, sq, aws>>

\* record_and_save lines 165-179: read back, count, pick the next prompt
ReadBack(t) ==
    /\ h[t].pc = "rs_load"
    /\ LET r == SavedResult(all_prompts, load_progress(progress_file), h[t].speaker_id)
       IN  /\ ret' = Return(t, r)
           /\ ShowIn(t, r.prompt_text, r.prompt_idx)
           /\ last_result' = [last_result EXCEPT ![h[t].speaker_id] =
                                  LastTwo(Append(@, r))]
    /\ h' = [h EXCEPT ![t] = IdleHandler]
    /\ UNCHANGED <<bucket, all_prompts, progress_file, meta, audio_store, clock, speaker,
                   persisted, calls, sq, aws>>

\* the speaker-change callback creating the record of a speaker not yet in
\* progress.json, as save_progress lines 92-96 do, and writing it
SpeakerChangeCreates(t, s) ==
    /\ s # speaker[t]
    /\ speaker' = [speaker EXCEPT ![t] = s]
    /\ LET i == ResumeIdx(all_prompts, progress_file, s)
           m == load_progress(progress_file)
       IN  /\ ShowIn(t, PromptAt(all_prompts, i), i)
           /\ ret' = Return(t, ChangedResult(all_prompts, i))
           /\ progress_file' =
                 IF Strip(s) = <<>> THEN progress_file
                 ELSE IF s \in DOMAIN m THEN JsonFile(m)
                 ELSE JsonFile(m @@ (s :> NewRecord))
    /\ UNCHANGED <<bucket, all_prompts, meta, audio_store, clock, h,
                   persisted, calls, last_result, sq, aws>>

\* speaker.change: the text box now holds s, and
\* update_prompt_on_speaker_change lines 181-194 runs on it; when
\* load_progress raises, the outputs are not updated
SpeakerChange(t, s) ==
    /\ s # speaker[t]
    /\ speaker' = [speaker EXCEPT ![t] = s]
    /\ IF Strip(s) # <<>> /\ ~Loads(progress_file)
       THEN /\ ret' = Return(t, RaisedResult)
            /\ UNCHANGED <<prompt_box, idx_state>>
       ELSE LET i == ResumeIdx(all_prompts, progress_file, s)
            IN  /\ ShowIn(t, PromptAt(all_prompts, i), i)
                /\ ret' = Return(t, ChangedResult(all_prompts, i))
    /\ UNCHANGED <<bucket, all_prompts, progress_file, meta, audio_store, clock, h,
                   persisted, calls, last_result, sq, aws>>

\* a storage call raises (S3 unreachable, permission denied, disk full):
\* the exception leaves record_and_save
Fail(t) ==
    /\ h[t].pc \in {"audio", "meta", "sp_open", "sp_dump"}
    /\ ret' = Return(t, RaisedResult)
    /\ h' = [h EXCEPT ![t] = IdleHandler]
    /\ UNCHANGED <<bucket, all_prompts, progress_file, meta, audio_store, clock, speaker,
                   idx_state, prompt_box, persisted, calls, last_result, sq, aws>>

\* the two copies of the sequencer applied to the drawn list
ApplySequencer ==
    /\ sq.on_submit = -1
    /\ LET ps == PromptList(sq.n)
           i == NextPromptOnSubmit(ps, sq.completed_list)
           j == NextPromptOnChange(ps, sq.completed_list)
       IN  sq' = [sq EXCEPT !.on_submit = i, !.on_submit_text = PromptAt(ps, i),
                            !.on_change = j, !.on_change_text = PromptAt(ps, j)]
    /\ UNCHANGED <<bucket, all_prompts, progress_file, meta, audio_store, clock,
                   speaker, idx_state, prompt_box, h, ret, persisted, calls,
                   last_result, aws>>

\* ---------------------------------------------------------- specifications
SqInput(n, l) ==
    [n |-> n, completed_list |-> l, on_submit |-> -1, on_submit_text |-> <<>>,
     on_change |-> -1, on_change_text |-> <<>>]

NoSq == SqInput(0, <<>>)

\* the portal just started: no progress.json, no recording, one empty form per tab
Started ==
    /\ progress_file = AbsentFile
    /\ meta = <<>>
    /\ audio_store = {}
    /\ clock = 0
    /\ speaker = [t \in Tabs |-> <<>>]
    /\ idx_state = [t \in Tabs |-> 0]
    /\ prompt_box = [t \in Tabs |-> <<>>]
    /\ h = [t \in Tabs |-> IdleHandler]
    /\ ret = NoReturn
    /\ persisted = EmptyMap
    /\ calls = <<>>
    /\ last_result = [s \in SpeakerIds |-> <<>>]
    /\ aws = AwsStarted

Init ==
    /\ bucket \in BOOLEAN
    /\ all_prompts \in {PromptList(n) : n \in 1..MaxPrompts}
    /\ Started
    /\ sq = NoSq

Quiet == \A u \in Tabs : h[u].pc = "idle"

\* one callback at a time, no storage failure
Next ==
    \E t \in SessionTabs :
        \/ \E a \in Audios : Quiet /\ Submit(t, a)
        \/ \E s \in SpeakerIds : Quiet /\ SpeakerChange(t, s)
        \/ SaveAudio(t)
        \/ AppendMeta(t)
        \/ LoadAndMerge(t)
        \/ OpenForWrite(t)
        \/ Dump(t)
        \/ ReadBack(t)

Spec == Init /\ [][Next]_vars

\* two volunteers' tabs, local storage, the longest prompt list
InitConc ==
    /\ bucket = FALSE
    /\ all_prompts = PromptList(MaxPrompts)
    /\ Started
    /\ sq = NoSq

ConcAudios == {Wav(MaxDur)}
ConcSpeakerIds == {<<"a">>, <<"b">>}

\* callbacks of the two tabs interleave, no storage failure
NextConc ==
    \E t \in Tabs :
        \/ \E a \in ConcAudios : Submit(t, a)
        \/ \E s \in ConcSpeakerIds : SpeakerChange(t, s)
        \/ SaveAudio(t)
        \/ AppendMeta(t)
        \/ LoadAndMerge(t)
        \/ OpenForWrite(t)
        \/ Dump(t)
        \/ ReadBack(t)

SpecConc == InitConc /\ [][NextConc]_vars

\* one callback at a time, storage calls may fail
NextFail ==
    \E t \in SessionTabs :
        \/ \E a \in Audios : Quiet /\ Submit(t, a)
        \/ \E s \in SpeakerIds : Quiet /\ SpeakerChange(t, s)
        \/ SaveAudio(t)
        \/ AppendMeta(t)
        \/ LoadAndMerge(t)
        \/ OpenForWrite(t)
        \/ Dump(t)
        \/ ReadBack(t)
        \/ Fail(t)

SpecFail == Init /\ [][NextFail]_vars

FailAudios == {NoAudio, Wav(MaxDur)}
FailSpeakerIds == {<<>>, <<"a">>, <<"b">>}

\* one callback at a time, storage calls may fail; recordings of one
\* length, ids empty or not blank
NextWrites ==
    \E t \in SessionTabs :
        \/ \E a \in FailAudios : Quiet /\ Submit(t, a)
        \/ \E s \in FailSpeakerIds : Quiet /\ SpeakerChange(t, s)
        \/ SaveAudio(t)
        \/ AppendMeta(t)
        \/ LoadAndMerge(t)
        \/ OpenForWrite(t)
        \/ Dump(t)
        \/ ReadBack(t)
        \/ Fail(t)

SpecWrites == Init /\ [][NextWrites]_vars

\* a progress.json as the portal may find it at startup: none, an emptied
\* or half-written one, bytes that are not text, or a document whose lists
\* some other writer (an editor, another version of the script) left in any
\* order and with repeats
StoredLists ==
    UNION {[1..k -> 0..(MaxPrompts - 1)] : k \in 0..MaxListLen}

StoredDocs ==
    {EmptyMap} \cup
    {<<"a">> :> [completed_prompts |-> l, total_duration_seconds |-> d] :
        l \in StoredLists, d \in 0..MaxDur}

StoredFiles ==
    {AbsentFile, TruncatedFile, UndecodableFile} \cup
    {JsonFile(m) : m \in StoredDocs}

\* the portal started over a progress.json of an earlier run, local
\* storage, the longest prompt list; the earlier run's recordings are not
\* kept in the model and its timestamps are passed, one is left to hand out
InitRestart ==
    /\ bucket = FALSE
    /\ all_prompts = PromptList(MaxPrompts)
    /\ progress_file \in StoredFiles
    /\ meta = <<>>
    /\ audio_store = {}
    /\ clock = MaxSubmits - 1
    /\ speaker = [t \in Tabs |-> <<>>]
    /\ idx_state = [t \in Tabs |-> 0]
    /\ prompt_box = [t \in Tabs |-> <<>>]
    /\ h = [t \in Tabs |-> IdleHandler]
    /\ ret = NoReturn
    /\ persisted = load_progress(progress_file)
    /\ calls = <<>>
    /\ last_result = [s \in SpeakerIds |-> <<>>]
    /\ aws = AwsStarted
    /\ sq = NoSq

\* one callback at a time, no storage failure, over the file found
NextRestart ==
    \E t \in SessionTabs :
        \/ \E a \in Audios : Quiet /\ Submit(t, a)
        \/ \E s \in SpeakerIds : Quiet /\ SpeakerChange(t, s)
        \/ SaveAudio(t)
        \/ AppendMeta(t)
        \/ LoadAndMerge(t)
        \/ OpenForWrite(t)
        \/ Dump(t)
        \/ ReadBack(t)

SpecRestart == InitRestart /\ [][NextRestart]_vars

\* the volunteer does in the AWS portal what they do in this one: the same
\* text in the Speaker-ID box, the same recording submitted
SubmitBoth(t, audio) == Click(t, audio) /\ AwsRecordAndSave(speaker[t], audio)

\* the two portals side by side, one callback at a time, no storage failure
NextVariants ==
    \E t \in SessionTabs :
        \/ \E a \in Audios : Quiet /\ SubmitBoth(t, a)
        \/ \E s \in SpeakerIds : Quiet /\ SpeakerChange(t, s)
        \/ SaveAudio(t)
        \/ AppendMeta(t)
        \/ LoadAndMerge(t)
        \/ OpenForWrite(t)
        \/ Dump(t)
        \/ ReadBack(t)

SpecVariants == Init /\ [][NextVariants]_vars

\* the sequencer alone, on every prompt-list length and completed list drawn
InitSequencer ==
    /\ bucket = FALSE
    /\ all_prompts = PromptList(1)
    /\ Started
    /\ sq \in {SqInput(n, l) :
                 n \in 1..MaxN,
                 l \in UNION {[1..k -> 0..MaxN] : k \in 0..MaxListLen}}

NextSequencer == ApplySequencer

SpecSequencer == InitSequencer /\ [][NextSequencer]_vars

\* ------------------------------------------------------------------ claims
\* the record of speaker s in progress.json as a reader finds it
SpeakerRecord(s) == GetRecord(load_progress(progress_file), s)

Completed(rec) == ToSet(rec.completed_prompts)

Count(x, l) == Cardinality({k \in DOMAIN l : l[k] = x})

\* a speaker id made of whitespace only
Blank(s) == \A k \in DOMAIN s : s[k] \in Whitespace

\* the smallest index of 0..n-1 missing from done, 0 when none is missing
LeastIncomplete(done, n) ==
    LET missing == {i \in 0..(n - 1) : i \notin done}
    IN  IF missing = {} THEN 0
        ELSE CHOOSE i \in missing : \A j \in missing : i <= j

\* the last two save_progress calls had the same arguments, and their
\* result is what progress.json holds
TwiceInARow ==
    /\ Len(calls) = 2
    /\ calls[1].speaker_id = calls[2].speaker_id
    /\ calls[1].prompt_idx = calls[2].prompt_idx
    /\ calls[1].audio_duration = calls[2].audio_duration
    /\ progress_file.state = "json"

\* C1 as stated: after save_progress is called twice in a row with the same
\* (speaker_id, prompt_idx, duration), the index is in the list once, the
\* total is the total before the first call plus duration, and the second
\* call changed nothing.
C1_AddedExactlyOnce ==
    TwiceInARow =>
        LET rec == SpeakerRecord(calls[2].speaker_id)
        IN  /\ Count(calls[2].prompt_idx, rec.completed_prompts) = 1
            /\ rec.total_duration_seconds =
                  calls[1].before.total_duration_seconds + calls[2].audio_duration
            /\ calls[2].before = calls[1].after
            /\ rec = calls[2].before

\* C1 amended: after two calls in a row with the same arguments the index
\* is in the list once, the second call changed nothing, and the total is
\* the total before the first call plus duration when the index was not
\* completed before the first call, and unchanged when it was.
C1_Idempotent ==
    TwiceInARow =>
        LET rec == SpeakerRecord(calls[2].speaker_id)
            was == calls[2].prompt_idx \in Completed(calls[1].before)
        IN  /\ Count(calls[2].prompt_idx, rec.completed_prompts) = 1
            /\ rec.total_duration_seconds =
                  calls[1].before.total_duration_seconds
                  + (IF was THEN 0 ELSE calls[2].audio_duration)
            /\ calls[2].before = calls[1].after
            /\ rec = calls[2].before

\* the first of the two calls completed the index, with a duration above 0
C1_Witness ==
    /\ TwiceInARow
    /\ calls[1].prompt_idx \notin Completed(calls[1].before)
    /\ calls[1].audio_duration > 0

\* C2: once two submits of one speaker with different prompt indices have
\* both finished, progress.json holds both indices and the later merge
\* started from what the earlier one wrote.
C2_NoLostUpdate ==
    ( /\ Quiet
      /\ Len(calls) = 2
      /\ calls[1].speaker_id = calls[2].speaker_id
      /\ calls[1].prompt_idx # calls[2].prompt_idx )
    => LET rec == SpeakerRecord(calls[2].speaker_id)
       IN  /\ {calls[1].prompt_idx, calls[2].prompt_idx} \subseteq Completed(rec)
           /\ calls[2].before = calls[1].after
           /\ rec.total_duration_seconds = calls[2].after.total_duration_seconds

RecordGrows(r1, r2) ==
    /\ Completed(r1) \subseteq Completed(r2)
    /\ r1.total_duration_seconds <= r2.total_duration_seconds

\* C3: from one persisted mapping to the next, no speaker's completed
\* prompts lose an element and no speaker's total duration decreases.
C3_Monotonic ==
    [][\A s \in SpeakerIds :
          RecordGrows(GetRecord(persisted, s), GetRecord(persisted', s))]_vars

\* two speakers persisted, one of them with two completed prompts
C3_Witness ==
    /\ Cardinality(DOMAIN persisted) = 2
    /\ \E s \in DOMAIN persisted : Len(persisted[s].completed_prompts) = 2
    /\ progress_file = JsonFile(persisted)

\* C4: on a prompt list of length N >= 1 and any completed list, both
\* copies of the next-prompt computation return the smallest index of
\* 0..N-1 not completed, 0 when all are completed; the index is valid and
\* the text is the prompt at that index.
C4_Sequencer ==
    sq.on_submit # -1 =>
        LET want == LeastIncomplete(ToSet(sq.completed_list), sq.n)
        IN  /\ sq.n >= 1
            /\ sq.on_submit = want
            /\ sq.on_change = want
            /\ sq.on_submit \in 0..(sq.n - 1)
            /\ sq.on_submit_text = PromptText(sq.on_submit)
            /\ sq.on_change_text = PromptText(sq.on_change)

\* every prompt of a list of two or more is completed: the wrap to 0
C4_Witness ==
    /\ sq.on_submit # -1
    /\ sq.n >= 2
    /\ 0..(sq.n - 1) \subseteq ToSet(sq.completed_list)

ArtifactsOf(s, i) ==
    {a \in audio_store : a.speaker_id = s /\ a.prompt_idx = i}

\* the length of the recording of (s, i) that was stored first
FirstRecordingDur(s, i) ==
    (CHOOSE a \in ArtifactsOf(s, i) :
        \A b \in ArtifactsOf(s, i) : a.timestamp <= b.timestamp).dur

RECURSIVE SumFirstDur(_, _)
SumFirstDur(s, done) ==
    IF done = {} THEN 0
    ELSE LET i == CHOOSE x \in done : TRUE
         IN  FirstRecordingDur(s, i) + SumFirstDur(s, done \ {i})

\* C5: for every speaker in progress.json the total duration is the sum,
\* over the completed indices, of the length of the recording whose submit
\* first completed the index (local or bucket storage).
C5_DurationAccounting ==
    progress_file.state = "json" =>
        \A s \in DOMAIN progress_file.data :
            progress_file.data[s].total_duration_seconds =
                SumFirstDur(s, Completed(progress_file.data[s]))

\* C6: a submit with a blank speaker id, no audio or undecodable audio never
\* goes on to store anything; the step that returns the warning leaves
\* progress.json, meta.csv and the audio storage unchanged and hands back
\* the submitted prompt index and its text.
C6_RejectedSubmitIsNoOp ==
    [][\A t \in Tabs :
         /\ (h[t].pc = "idle" /\ h'[t].pc # "idle")
               => (~Blank(h'[t].speaker_id) /\ h'[t].audio.kind = "wav")
         /\ (ret' # ret /\ ret'.tab = t /\ ret'.value.status \in Warnings)
               => /\ UNCHANGED <<progress_file, meta, audio_store, h>>
                  /\ ret'.value.prompt_idx = idx_state[t]
                  /\ ret'.value.prompt_text = PromptAt(all_prompts, idx_state[t])
                  /\ idx_state'[t] = idx_state[t]]_vars

\* an undecodable recording was turned away while progress was on file
C6_Witness ==
    /\ ret.value.status = "warn_audio"
    /\ progress_file.state = "json"
    /\ audio_store # {}
    /\ ret.value.prompt_idx = idx_state[ret.tab]

\* C7: when a storage call of a submit raises, a progress.json persisted
\* before the submit began has the content it had then.
C7_FailureLeavesProgress ==
    [][\A t \in Tabs :
         ( /\ h[t].pc # "idle"
           /\ h'[t].pc = "idle"
           /\ ret'.value.status = "raised"
           /\ h[t].file0.state = "json" )
         => progress_file' = h[t].file0]_vars

\* the complete mappings a reader may find: the last one written and the
\* ones being written right now
CompleteMappings ==
    {persisted} \cup {h[u].progress : u \in {v \in Tabs : h[v].pc = "sp_dump"}}

\* C8: a load_progress, in a submit or in a speaker-change event, returns
\* the complete mapping from before a write in progress or the complete
\* mapping after it.
C8_AtomicSave ==
    [][\A t \in Tabs :
         /\ (h[t].pc = "sp_load" /\ h'[t].pc = "sp_open")
               => h'[t].loaded \in CompleteMappings
         /\ (speaker'[t] # speaker[t] /\ ~Blank(speaker'[t]))
               => idx_state'[t] \in
                     {LeastIncomplete(Completed(GetRecord(m, speaker'[t])),
                                      Len(all_prompts)) : m \in CompleteMappings}]_vars

\* what the submit shows of the speaker's progress
Summary(r) == <<r.completed_count, r.n, r.total_duration, r.prompt_idx>>

\* C9: a successful submit handled alone returns the number of distinct
\* completed indices of the speaker after the merge, the prompt-list
\* length and the sequencer's index on that set; a re-submit of a completed
\* index returns the count, total and next index of the speaker's previous
\* submit.
C9_ResultReflectsMerge ==
    (Quiet /\ ret.value.status = "saved") =>
        LET c == calls[Len(calls)]
            rec == SpeakerRecord(c.speaker_id)
            r == ret.value
            mine == last_result[c.speaker_id]
        IN  /\ r.completed_count = Cardinality(Completed(rec))
            /\ r.n = Len(all_prompts)
            /\ r.prompt_idx = LeastIncomplete(Completed(rec), Len(all_prompts))
            /\ r.prompt_text = PromptAt(all_prompts, r.prompt_idx)
            /\ r.total_duration = rec.total_duration_seconds
            /\ mine[Len(mine)] = r
            /\ c.prompt_idx \in Completed(c.before)
                  => (Len(mine) = 2 /\ Summary(mine[1]) = Summary(r))

\* a completed index was submitted again, with time on the clock
C9_Witness ==
    /\ Quiet
    /\ ret.value.status = "saved"
    /\ calls[Len(calls)].prompt_idx \in Completed(calls[Len(calls)].before)
    /\ ret.value.total_duration > 0
    /\ Len(all_prompts) = 2

\* C10: a speaker-change to a non-blank id returns the smallest index not in
\* the speaker's persisted completed prompts (0 for a blank id), and with no
\* submit of that speaker since, the index the speaker's last successful
\* submit returned.
C10_Resume ==
    [][\A t \in Tabs :
         speaker'[t] # speaker[t] =>
            LET s == speaker'[t]
                mine == last_result[s]
            IN  IF Blank(s)
                THEN idx_state'[t] = 0
                ELSE /\ idx_state'[t] =
                           LeastIncomplete(Completed(GetRecord(persisted, s)),
                                           Len(all_prompts))
                     /\ ( /\ mine # <<>>
                          /\ \A u \in Tabs :
                                ~(h[u].pc # "idle" /\ h[u].speaker_id = s) )
                        => idx_state'[t] = mine[Len(mine)].prompt_idx]_vars

\* C11: a speaker-change event, for a blank, a known or a never-seen
\* speaker id and whatever progress.json holds, leaves progress.json,
\* meta.csv and the audio storage as they were; a speaker without a record
\* has none afterwards.
C11_SpeakerChangeReadOnly ==
    [][\A t \in Tabs :
         speaker'[t] # speaker[t] =>
            /\ UNCHANGED <<progress_file, meta, audio_store>>
            /\ DOMAIN load_progress(progress_file') =
                  DOMAIN load_progress(progress_file)]_vars

\* the event ran for a speaker without a record, over a document holding
\* another speaker's
C11_Witness ==
    /\ ret.value.status = "changed"
    /\ progress_file.state = "json"
    /\ DOMAIN progress_file.data # {}
    /\ ~Blank(speaker[ret.tab])
    /\ speaker[ret.tab] \notin DOMAIN progress_file.data

\* C12: over a progress.json that is absent or does not parse,
\* load_progress returns the empty mapping without raising: a speaker-change
\* returns index 0 for every speaker, and a submit goes through and leaves
\* a well-formed document holding the one completed index.
C12_CorruptDegradesToEmpty ==
    [][\A t \in Tabs :
         /\ (speaker'[t] # speaker[t] /\ progress_file.state # "json")
               => /\ ret'.value.status = "changed"
                  /\ ret'.value.prompt_idx = 0
                  /\ idx_state'[t] = 0
         /\ (h[t].pc = "sp_load" /\ progress_file.state # "json")
               => /\ h'[t].pc = "sp_open"
                  /\ h'[t].loaded = EmptyMap
         /\ (h[t].pc = "sp_dump" /\ h[t].file0.state # "json")
               => progress_file' =
                     JsonFile(h[t].speaker_id :>
                                 [completed_prompts |-> <<h[t].prompt_idx>>,
                                  total_duration_seconds |-> h[t].audio_duration])
         /\ (h[t].pc = "rs_load" /\ h[t].file0.state # "json")
               => /\ ret'.value.status = "saved"
                  /\ ret'.value.completed_count = 1]_vars

StrictlyAscending(l) == \A i, j \in DOMAIN l : i < j => l[i] < l[j]

\* C13: after every save_progress call, whatever order or repeats the list
\* it loaded had and whether or not prompt_idx was in it, the list of that
\* speaker in progress.json is strictly ascending, without repeats.
C13_NormalizedPersistence ==
    (calls # <<>> /\ progress_file.state = "json") =>
        LET c == calls[Len(calls)]
        IN  /\ StrictlyAscending(c.after.completed_prompts)
            /\ StrictlyAscending(SpeakerRecord(c.speaker_id).completed_prompts)

\* C14: a merge for one speaker never changes the persisted record of
\* another; once a merge for A and a merge for B have both finished,
\* one after the other or with their load and write steps interleaved,
\* progress.json holds what each of them wrote for its speaker.
C14_CrossSpeakerIsolation ==
    ( /\ Quiet
      /\ Len(calls) = 2
      /\ calls[1].speaker_id # calls[2].speaker_id )
    => /\ SpeakerRecord(calls[1].speaker_id) = calls[1].after
       /\ SpeakerRecord(calls[2].speaker_id) = calls[2].after
       /\ calls[1].prompt_idx \in Completed(SpeakerRecord(calls[1].speaker_id))
       /\ calls[2].prompt_idx \in Completed(SpeakerRecord(calls[2].speaker_id))

MetaRowsOf(s, i) ==
    {k \in DOMAIN meta : meta[k].speaker_id = s /\ meta[k].prompt_idx = i}

\* C15: in every state, those left by a submit that failed part-way
\* included, every index in a speaker's completed prompts in progress.json
\* has a row in meta.csv and a stored recording for that speaker and index,
\* and every row of meta.csv has its recording: the audio is stored first,
\* then the row, then the progress.
C15_ProgressBehindRecordings ==
    /\ \A s \in DOMAIN load_progress(progress_file) :
          \A i \in Completed(SpeakerRecord(s)) :
              /\ MetaRowsOf(s, i) # {}
              /\ ArtifactsOf(s, i) # {}
    /\ \A k \in DOMAIN meta :
          ArtifactsOf(meta[k].speaker_id, meta[k].prompt_idx) # {}

\* a submit failed after its recording was stored, with an earlier prompt
\* of the speaker completed: a recording without row or progress
C15_Witness ==
    /\ Quiet
    /\ ret.value.status = "raised"
    /\ progress_file.state = "json"
    /\ \E s \in DOMAIN progress_file.data :
          /\ 0 \in Completed(progress_file.data[s])
          /\ 1 \notin Completed(progress_file.data[s])
          /\ ArtifactsOf(s, 1) # {}
          /\ MetaRowsOf(s, 1) = {}

\* the submits of speaker s that went through: each appended one row
SubmitsOf(s) ==
    Cardinality({k \in DOMAIN meta : meta[k].speaker_id = s})

\* the index presented to a speaker with the first done prompts completed
Presented(done, n) == IF done < n THEN done ELSE 0

\* C16: with one callback at a time and no storage failure, a volunteer
\* starting without a record and submitting the presented index each time
\* has completed 0..k-1 after k submits (k <= N) and is presented k; after
\* N submits all of 0..N-1 are completed, and from then on the index
\* presented is 0, the completed count stays N and the total duration is
\* the one reached at the N-th submit.
C16_CompletionReached ==
    Quiet =>
        LET n == Len(all_prompts)
        IN  /\ \A s \in SpeakerIds :
                  LET k == SubmitsOf(s)
                      done == IF k < n THEN k ELSE n
                      rec == SpeakerRecord(s)
                      mine == last_result[s]
                  IN  /\ rec.completed_prompts = [i \in 1..done |-> i - 1]
                      /\ k > 0 =>
                            /\ mine[Len(mine)].completed_count = done
                            /\ mine[Len(mine)].prompt_idx = Presented(done, n)
                            /\ mine[Len(mine)].total_duration =
                                  rec.total_duration_seconds
                      /\ \A t \in Tabs :
                            speaker[t] = s => idx_state[t] = Presented(done, n)
                      /\ k > n =>
                            /\ Len(mine) = 2
                            /\ mine[1].total_duration = mine[2].total_duration
            /\ calls # <<>> =>
                  LET c == calls[Len(calls)]
                  IN  Cardinality(Completed(c.before)) = n =>
                         /\ c.prompt_idx = 0
                         /\ c.after = c.before

\* a volunteer completed both prompts of a list of two and submitted once
\* more
C16_Witness ==
    /\ Quiet
    /\ Len(all_prompts) = 2
    /\ ret.value.status = "saved"
    /\ ret.value.prompt_idx = 0
    /\ ret.value.completed_count = 2
    /\ ret.value.total_duration > 0
    /\ \E s \in SpeakerIds : SubmitsOf(s) = 3

\* the (speaker, index) of the rows of a meta.csv, in order
RowKeys(rows) ==
    [k \in DOMAIN rows |-> <<rows[k].speaker_id, rows[k].prompt_idx>>]

\* a click on Submit in both portals (the AWS variant keeps the arguments
\* of its last call)
Clicked(t) ==
    /\ h[t].pc = "idle"
    /\ \/ aws' # aws
       \/ h'[t].pc = "audio"
       \/ (ret' # ret /\ ret'.value.status \in Warnings)

\* the submit returning in tab t is one of the first N of a volunteer who
\* is the only one to have submitted, and every submit went through in
\* both portals
FreshRun(t) ==
    /\ h[t].pc = "rs_load"
    /\ h'[t].pc = "idle"
    /\ Len(meta) <= Len(all_prompts)
    /\ \A k \in DOMAIN meta : meta[k].speaker_id = h[t].speaker_id
    /\ RowKeys(aws.meta) = RowKeys(meta)

\* after each of the first N submits of a fresh volunteer the two variants
\* return the same next index, (prompt_idx + 1) mod N
SameOrder(t) ==
    FreshRun(t) =>
        /\ idx_state'[t] = aws.prompt_idx
        /\ idx_state'[t] = AwsNextIdx(h[t].prompt_idx, all_prompts)
        /\ ret'.value.prompt_idx = idx_state'[t]

\* on a blank speaker id or a missing recording this portal warns and
\* returns the index submitted, and the AWS variant saves nothing and keeps
\* its index
SameRejection(t) ==
    (Clicked(t) /\ (Blank(speaker[t]) \/ aws'.audio.kind = "none")) =>
        /\ ret'.value.status \in Warnings
        /\ ret'.value.prompt_idx = idx_state[t]
        /\ idx_state'[t] = idx_state[t]
        /\ aws'.status # "saved"
        /\ aws'.prompt_idx = aws.prompt_idx

\* C17: for a fresh volunteer starting at index 0 over an empty progress
\* store and submitting each presented prompt, the next index the
\* progress-tracking record_and_save returns equals the one the AWS variant
\* returns, (prompt_idx + 1) mod N, after each of the first N submits; on a
\* blank speaker id or a missing recording both variants return the
\* submitted index unchanged.
C17_VariantsAgree ==
    [][\A t \in SessionTabs : SameOrder(t) /\ SameRejection(t)]_vars

====
